---- MODULE Spec2Model ----
(***************************************************************************)
(* The fetch-and-extract pipeline of scraper2.py: the policy guard         *)
(* (domain_blocked), the fetch client (fetch_html: a requests session with *)
(* a urllib3 Retry policy, or a Playwright browser), the extractor         *)
(* (parse_products with sel_one / sel_all / txt / to_abs / clean_price),   *)
(* the orchestrator (scrape_once) and the UI handler (do_scrape).          *)
(*                                                                         *)
(* One behaviour of the model is one call of do_scrape or of scrape_once.  *)
(* Python strings are modelled as sequences of one-character strings, so   *)
(* that endswith, strip, the whitespace collapse and the price regex work  *)
(* on characters.                                                          *)
(***************************************************************************)
EXTENDS Integers, Sequences, FiniteSets, TLC

VARIABLES
    pc,          \* position in the call: which step runs next
    entry,       \* the function the caller invoked: "do_scrape" or "scrape_once"
    url,         \* the url argument (do_scrape replaces it by url.strip())
    use_js,      \* the render-JavaScript flag
    max_items,   \* the max_items argument, bound when parse_products reads it
    selectors,   \* the selector dict, bound when parse_products reads it
    retries,     \* Retry.total still left in the session's retry policy
    httpCalls,   \* HTTP requests the transport has been handed (non-JS path)
    resp,        \* the last response the transport gave (None: none / an error)
    others,      \* history: an attempt before the last one was not a 503 reply
    playwright,  \* the Playwright driver: "none", "running", "stopped"
    browser,     \* the Chromium browser: "none", "open", "closed"
    navs,        \* page.goto navigations started
    exc,         \* the exception in flight inside the `with` block (NoError: none)
    html,        \* the HTML fetch_html returned
    rows,        \* the records parse_products returned
    outcome      \* how the call ended: a raised error or a returned value

vars == <<pc, entry, url, use_js, max_items, selectors, retries, httpCalls,
          resp, others, playwright, browser, navs, exc, html, rows, outcome>>

----------------------------------------------------------------------------
(* Python values *)

None == [t |-> "None"]

Str(s) == [t |-> "str", s |-> s]

\* bool(x) of None or of a str
Truthy(x) == x # None /\ x.s # <<>>

\* Python's `a or b`
Or(a, b) == IF Truthy(a) THEN a ELSE b

Min(a, b) == IF a <= b THEN a ELSE b

IsSpace(c) == c \in {" ", "\n", "nbsp"}

Digits == {"0", "1", "2", "3", "4", "5", "6", "7", "8", "9"}

IsDigit(c) == c \in Digits

RECURSIVE lstrip(_)
lstrip(s) ==
    IF s # <<>> /\ IsSpace(Head(s)) THEN lstrip(Tail(s)) ELSE s

RECURSIVE rstrip(_)
rstrip(s) ==
    IF s # <<>> /\ IsSpace(s[Len(s)]) THEN rstrip(SubSeq(s, 1, Len(s) - 1)) ELSE s

\* str.strip()
strip(s) == rstrip(lstrip(s))

UpperToLower ==
    ("W" :> "w") @@ ("M" :> "m") @@ ("C" :> "c") @@ ("O" :> "o")

\* str.lower()
lower(s) ==
    [i \in 1..Len(s) |-> IF s[i] \in DOMAIN UpperToLower THEN UpperToLower[s[i]] ELSE s[i]]

\* str.endswith(suffix)
endswith(s, suffix) ==
    /\ Len(s) >= Len(suffix)
    /\ SubSeq(s, Len(s) - Len(suffix) + 1, Len(s)) = suffix

----------------------------------------------------------------------------
(* URLs.  A URL string is kept as its parts: surrounding whitespace (ws),  *)
(* scheme, host (characters, as written), whether the path starts with "/" *)
(* and the path's segments (a trailing "" segment is a trailing slash).    *)

Url(scheme, host, rooted, path) ==
    [t |-> "url", ws |-> FALSE, scheme |-> scheme, host |-> host,
     rooted |-> rooted, path |-> path]

\* the empty string ""
EmptyUrl == Url("", <<>>, FALSE, <<>>)

\* " " + u + " "
Padded(u) == [u EXCEPT !.ws = TRUE]

\* url.strip()
url_strip(u) == [u EXCEPT !.ws = FALSE]

\* bool(url) for a url that is None or a str
UrlTruthy(u) == u # None /\ u # EmptyUrl

MyntraCom == <<"m", "y", "n", "t", "r", "a", ".", "c", "o", "m">>

WwwMyntraCom == <<"w", "w", "w", ".", "m", "y", "n", "t", "r", "a", ".", "c", "o", "m">>

ShopMyntraCom == <<"s", "h", "o", "p", ".", "m", "y", "n", "t", "r", "a", ".", "c", "o", "m">>

WwwMyntraComUpper == <<"W", "W", "W", ".", "M", "y", "n", "t", "r", "a", ".", "C", "O", "M">>

NotMyntraCom == <<"n", "o", "t", "m", "y", "n", "t", "r", "a", ".", "c", "o", "m">>

BooksToscrapeCom ==
    <<"b", "o", "o", "k", "s", ".", "t", "o", "s", "c", "r", "a", "p", "e", ".", "c", "o", "m">>

MyntraComEvilOrg ==
    <<"m", "y", "n", "t", "r", "a", ".", "c", "o", "m", ".", "e", "v", "i", "l", ".", "o", "r", "g">>

YCom == <<"y", ".", "c", "o", "m">>

BLOCKED_HOSTS == {MyntraCom, WwwMyntraCom}

\* the hosts the caller's URLs are drawn from
Hosts ==
    {MyntraCom, WwwMyntraCom, ShopMyntraCom, WwwMyntraComUpper, NotMyntraCom,
     BooksToscrapeCom, MyntraComEvilOrg}

\* the url strings a caller passes: "https://<host>/c/" for each host, the
\* empty string, and "books.toscrape.com/c/" (no scheme, so no host)
UrlStrings ==
    {Url("https", h, TRUE, <<"c", "">>) : h \in Hosts}
        \cup {EmptyUrl, Url("", <<>>, FALSE, <<"books.toscrape.com", "c", "">>)}

\* urlparse(url).hostname: None without a netloc, else the host lowercased
hostname(u) == IF u.host = <<>> THEN None ELSE Str(lower(u.host))

----------------------------------------------------------------------------
(* Policy guard *)

\* a slip-prone variant: only the exact host "myntra.com" is refused
domain_blocked_exact(u) ==
    LET host == lower(Or(hostname(u), Str(<<>>)).s)
    IN  host = MyntraCom

domain_blocked(u) ==
    LET host == lower(Or(hostname(u), Str(<<>>)).s)
    IN  endswith(host, MyntraCom)

----------------------------------------------------------------------------
(* Errors and outcomes *)

PolicyError == [type |-> "ValueError", why |-> "blocked"]

PlaywrightMissing == [type |-> "RuntimeError", why |-> "playwright not installed"]

MissingSchema == [type |-> "MissingSchema", why |-> "no scheme"]

ConnectionError == [type |-> "ConnectionError", why |-> "max retries exceeded"]

HTTPError(status) == [type |-> "HTTPError", why |-> "status", status |-> status]

BrowserError(step) == [type |-> "PlaywrightError", why |-> step]

\* an exception leaves scrape_once; do_scrape's `except Exception` turns it
\* into the message "Error: <e>"
Fail(err) ==
    IF entry = "do_scrape"
    THEN [kind |-> "returned", msg |-> "Error", err |-> err, csv |-> FALSE]
    ELSE [kind |-> "raised", msg |-> "", err |-> err, csv |-> FALSE]

NoError == [type |-> "", why |-> ""]

----------------------------------------------------------------------------
(* The parsed document.  A node has a label (the one selector that matches *)
(* it), its own text, its attributes and its children in document order.   *)

NoAttrs == [a \in {} |-> None]

El(label, text, attrs) ==
    [label |-> label, text |-> text, attrs |-> attrs, kids |-> <<>>]

Box(label, kids) ==
    [label |-> label, text |-> <<>>, attrs |-> NoAttrs, kids |-> kids]

\* Tag.get(key)
get(el, key) == IF key \in DOMAIN el.attrs THEN el.attrs[key] ELSE None

\* Tag.has_attr(key)
has_attr(el, key) == key \in DOMAIN el.attrs

RECURSIVE Descendants(_)
\* every node below `node`, in document order
Descendants(node) ==
    LET RECURSIVE Through(_)
        Through(ks) ==
            IF ks = <<>> THEN <<>>
            ELSE <<Head(ks)>> \o Descendants(Head(ks)) \o Through(Tail(ks))
    IN  Through(node.kids)

InvalidSelectors == {"li["}

Ok(v) == [ok |-> TRUE, v |-> v]

Raise == [ok |-> FALSE, v |-> <<>>]

\* Tag.select(selector): the matching descendants in document order; a
\* malformed selector raises SelectorSyntaxError
select(root, selector) ==
    IF selector \in InvalidSelectors THEN Raise
    ELSE Ok(SelectSeq(Descendants(root), LAMBDA n : n.label = selector))

\* Tag.select_one(selector): the first match or None
select_one(root, selector) ==
    LET r == select(root, selector)
    IN  IF ~r.ok THEN [ok |-> FALSE, v |-> None]
        ELSE [ok |-> TRUE, v |-> IF r.v = <<>> THEN None ELSE Head(r.v)]

sel_one(root, selector) ==
    LET r == IF selector # "" THEN select_one(root, selector) ELSE [ok |-> TRUE, v |-> None]
    IN  IF r.ok THEN r.v ELSE None

\* a variant without the try/except: the syntax error leaves sel_all
sel_all_raising(root, selector) ==
    IF selector # "" THEN select(root, selector) ELSE Ok(<<>>)

sel_all(root, selector) ==
    LET r == IF selector # "" THEN select(root, selector) ELSE Ok(<<>>)
    IN  IF r.ok THEN r ELSE Ok(<<>>)

RECURSIVE get_text_strip(_)
\* Tag.get_text(strip=True): the stripped strings below the node, joined
get_text_strip(node) ==
    LET RECURSIVE Through(_)
        Through(ks) ==
            IF ks = <<>> THEN <<>>
            ELSE get_text_strip(Head(ks)) \o Through(Tail(ks))
    IN  strip(node.text) \o Through(node.kids)

RECURSIVE collapse(_)
\* re.sub(r"\s+", " ", s)
collapse(s) ==
    IF s = <<>> THEN <<>>
    ELSE IF IsSpace(Head(s)) THEN <<" ">> \o collapse(lstrip(s))
    ELSE <<Head(s)>> \o collapse(Tail(s))

txt(el) == IF el # None THEN Str(collapse(get_text_strip(el))) ELSE Str(<<>>)

----------------------------------------------------------------------------
(* Normalizer *)

\* the directory of a path: everything up to its last "/"
Dir(path) == IF path = <<>> THEN <<>> ELSE SubSeq(path, 1, Len(path) - 1)

\* urllib.parse.urljoin(base, url)
urljoin(base, u) ==
    IF ~UrlTruthy(base) THEN u
    ELSE IF ~UrlTruthy(u) THEN base
    ELSE IF u.scheme # "" THEN u
    ELSE IF u.host # <<>> THEN [u EXCEPT !.scheme = base.scheme]
    ELSE IF u.rooted THEN Url(base.scheme, base.host, TRUE, u.path)
    ELSE Url(base.scheme, base.host, base.rooted, Dir(base.path) \o u.path)

to_abs(u, base) == IF ~UrlTruthy(u) THEN u ELSE urljoin(base, u)

DigitVal ==
    ("0" :> 0) @@ ("1" :> 1) @@ ("2" :> 2) @@ ("3" :> 3) @@ ("4" :> 4) @@
    ("5" :> 5) @@ ("6" :> 6) @@ ("7" :> 7) @@ ("8" :> 8) @@ ("9" :> 9)

RECURSIVE ToInt(_)
ToInt(ds) ==
    IF ds = <<>> THEN 0
    ELSE 10 * ToInt(SubSeq(ds, 1, Len(ds) - 1)) + DigitVal[ds[Len(ds)]]

RECURSIVE Float(_, _)
\* the number mant / 10^scale, written without trailing zeros
Float(mant, scale) ==
    IF scale > 0 /\ mant % 10 = 0 THEN Float(mant \div 10, scale - 1)
    ELSE [t |-> "float", mant |-> mant, scale |-> scale]

\* float(s): ValueError unless s is digits with at most one "."
float(s) ==
    LET dots == {i \in 1..Len(s) : s[i] = "."}
        digs == SelectSeq(s, IsDigit)
    IN  IF \/ digs = <<>>
           \/ Cardinality(dots) > 1
           \/ \E i \in 1..Len(s) : ~IsDigit(s[i]) /\ s[i] # "."
        THEN [ok |-> FALSE, v |-> None]
        ELSE LET dot == IF dots = {} THEN Len(s) ELSE CHOOSE i \in dots : TRUE
             IN  [ok |-> TRUE, v |-> Float(ToInt(digs), Len(s) - dot)]

RECURSIVE SpanIn(_, _, _)
\* the last index of the longest run from i on whose characters are in C
\* (i - 1 when s[i] is not)
SpanIn(s, i, C) ==
    IF i <= Len(s) /\ s[i] \in C THEN SpanIn(s, i + 1, C) ELSE i - 1

\* re.search(r"(\d[\d,]*\.?\d*)", s): group 1 of the leftmost match, or None
price_search(s) ==
    LET starts == {i \in 1..Len(s) : IsDigit(s[i])}
    IN  IF starts = {} THEN None
        ELSE LET i == CHOOSE k \in starts : \A m \in starts : k <= m
                 a == SpanIn(s, i + 1, Digits \cup {","})
                 b == IF a + 1 <= Len(s) /\ s[a + 1] = "." THEN a + 1 ELSE a
                 e == SpanIn(s, b + 1, Digits)
             IN  Str(SubSeq(s, i, e))

\* a variant that reports 0 when the text holds no number
clean_price_zero(s) ==
    IF ~Truthy(s) THEN Float(0, 0)
    ELSE LET m == price_search([i \in 1..Len(s.s) |-> IF s.s[i] = "nbsp" THEN " " ELSE s.s[i]])
         IN  IF m = None THEN Float(0, 0)
             ELSE LET f == float(SelectSeq(m.s, LAMBDA c : c # ","))
                  IN  IF f.ok THEN f.v ELSE None

clean_price(s) ==
    IF ~Truthy(s) THEN None
    ELSE LET m == price_search([i \in 1..Len(s.s) |-> IF s.s[i] = "nbsp" THEN " " ELSE s.s[i]])
         IN  IF m = None THEN None
             ELSE LET f == float(SelectSeq(m.s, LAMBDA c : c # ","))
                  IN  IF f.ok THEN f.v ELSE None

----------------------------------------------------------------------------
(* Extractor *)

Keys == {"card", "name", "price", "image", "review", "link"}

DEFAULT_SELECTORS ==
    [card |-> "ol.row li", name |-> "h3 a", price |-> ".price_color",
     image |-> ".image_container img", review |-> "p.star-rating", link |-> "h3 a"]

\* dict.get(key, "")
dict_get(d, key) == IF key \in DOMAIN d THEN d[key] ELSE ""

\* `a or b` on url strings
UrlOr(a, b) == IF UrlTruthy(a) THEN a ELSE b

\* seq[:k]
slice_to(s, k) ==
    IF k >= 0 THEN SubSeq(s, 1, Min(k, Len(s)))
    ELSE SubSeq(s, 1, IF Len(s) + k > 0 THEN Len(s) + k ELSE 0)

\* a variant that takes the review text without testing the element
card_record_review_txt(c, page_url, sels) ==
    LET name_el   == sel_one(c, dict_get(sels, "name"))
        price_el  == sel_one(c, dict_get(sels, "price"))
        image_el  == sel_one(c, dict_get(sels, "image"))
        review_el == sel_one(c, dict_get(sels, "review"))
        link_el   == sel_one(c, dict_get(sels, "link"))
        name      == txt(name_el)
        price_raw == txt(price_el)
        price_val == clean_price(price_raw)
        image_url ==
            IF image_el # None
            THEN to_abs(UrlOr(UrlOr(get(image_el, "src"), get(image_el, "data-src")),
                              get(image_el, "data-original")), page_url)
            ELSE None
        review == txt(review_el)
        product_url ==
            IF link_el # None /\ has_attr(link_el, "href")
            THEN to_abs(get(link_el, "href"), page_url)
            ELSE None
    IN  [product_name |-> Or(name, None),
         price_text   |-> Or(price_raw, None),
         price_value  |-> price_val,
         image_url    |-> image_url,
         review       |-> review,
         product_url  |-> product_url]

\* the body of parse_products' loop: the record of one card
card_record(c, page_url, sels) ==
    LET name_el   == sel_one(c, dict_get(sels, "name"))
        price_el  == sel_one(c, dict_get(sels, "price"))
        image_el  == sel_one(c, dict_get(sels, "image"))
        review_el == sel_one(c, dict_get(sels, "review"))
        link_el   == sel_one(c, dict_get(sels, "link"))
        name      == txt(name_el)
        price_raw == txt(price_el)
        price_val == clean_price(price_raw)
        image_url ==
            IF image_el # None
            THEN to_abs(UrlOr(UrlOr(get(image_el, "src"), get(image_el, "data-src")),
                              get(image_el, "data-original")), page_url)
            ELSE None
        review == IF review_el # None THEN txt(review_el) ELSE None
        product_url ==
            IF link_el # None /\ has_attr(link_el, "href")
            THEN to_abs(get(link_el, "href"), page_url)
            ELSE None
    IN  [product_name |-> Or(name, None),
         price_text   |-> Or(price_raw, None),
         price_value  |-> price_val,
         image_url    |-> image_url,
         review       |-> review,
         product_url  |-> product_url]

\* BeautifulSoup(html, "html.parser"): the document's root
BeautifulSoup(doc) == Box("[document]", doc.nodes)

\* a variant that keeps the last max_items cards instead of the first
parse_products_tail(page_url, doc, sels, k) ==
    LET found == sel_all(BeautifulSoup(doc), dict_get(sels, "card"))
    IN  IF ~found.ok THEN Raise
        ELSE LET cards == SubSeq(found.v, Len(found.v) - Min(k, Len(found.v)) + 1, Len(found.v))
             IN  Ok([i \in 1..Len(cards) |-> card_record(cards[i], page_url, sels)])

\* a variant that drops the records whose fields are all null
parse_products_skip_empty(page_url, doc, sels, k) ==
    LET found == sel_all(BeautifulSoup(doc), dict_get(sels, "card"))
    IN  IF ~found.ok THEN Raise
        ELSE LET cards == slice_to(found.v, k)
                 recs == [i \in 1..Len(cards) |-> card_record(cards[i], page_url, sels)]
             IN  Ok(SelectSeq(recs, LAMBDA r : \E f \in DOMAIN r : r[f] # None))

parse_products(page_url, doc, sels, k) ==
    LET found == sel_all(BeautifulSoup(doc), dict_get(sels, "card"))
    IN  IF ~found.ok THEN Raise
        ELSE LET cards == slice_to(found.v, k)
             IN  Ok([i \in 1..Len(cards) |-> card_record(cards[i], page_url, sels)])

----------------------------------------------------------------------------
(* The pages the transport or the browser can deliver *)

Rel(path) == Url("", <<>>, FALSE, path)

Rooted(path) == Url("", <<>>, TRUE, path)

Anchor(text, attrs) == El("h3 a", text, attrs)

Price(text) == El(".price_color", text, NoAttrs)

Img(attrs) == El(".image_container img", <<>>, attrs)

Rating(text) == El("p.star-rating", text, NoAttrs)

Card(kids) == Box("ol.row li", kids)

Card1 ==
    Card(<<Img([src |-> Rel(<<"media", "a.jpg">>)]),
           Anchor(<<"A", "\n", " ", "L", "i", "g", "h", "t">>, [href |-> Rel(<<"a", "index.html">>)]),
           Price(<<"$", "5", "1", ".", "7", "7">>),
           Price(<<"$", "9">>),
           Rating(<<"T", "h", "r", "e", "e">>)>>)

Card2 ==
    Card(<<Img("data-src" :> Url("https", YCom, TRUE, <<"z">>)),
           Anchor(<<"B">>, [href |-> Rooted(<<"b.html">>)]),
           Rating(<<"O", "n", "e">>)>>)

Card3 ==
    Card(<<Img(("src" :> EmptyUrl) @@ ("data-original" :> EmptyUrl)),
           Anchor(<<"C">>, [href |-> EmptyUrl]),
           Price(<<"F", "r", "e", "e">>)>>)

Card4 ==
    Card(<<Img(NoAttrs),
           Anchor(<<" ", " ">>, NoAttrs),
           Price(<<"R", "s", "nbsp", "1", ",", "9", "9", "9", ".", "5", "0">>),
           Rating(<<" ", "\n">>)>>)

Card5 == Card(<<>>)

Card6 ==
    Card(<<Anchor(<<"D">>, [href |-> Rel(<<"d.html">>)]),
           Price(<<" ", "\n">>),
           Img([src |-> Rooted(<<"a", "b.jpg">>)])>>)

Banner == El("div.banner", <<"B", "o", "o", "k", "s">>, NoAttrs)

Html(nodes) == [t |-> "html", nodes |-> nodes]

PageBooks == Html(<<Banner, Box("ol.row", <<Card1, Card2, Card3, Card4, Card5>>)>>)

PageSingle == Html(<<Box("ol.row", <<Card6>>)>>)

PageNoCards == Html(<<Banner>>)

Pages == {PageBooks, PageSingle, PageNoCards}

----------------------------------------------------------------------------
(* The arguments a caller passes *)

\* model bound: the largest max_items a caller passes
MaxK == 3

\* model bound: how many selectors of a config differ from DEFAULT_SELECTORS
MaxPerturbed == 2

DEFAULT_MAX_ITEMS == 50

Perturbed == {S \in SUBSET Keys : Cardinality(S) <= MaxPerturbed}

\* "" (empty), "li[" (malformed), ".nope" (matches nothing)
OddSelectors == {"", "li[", ".nope"}

\* the selector dicts scrape_once is called with: the defaults with some keys
\* missing, or with some selectors replaced by an odd one
SelectorDicts ==
    {[k \in Keys \ S |-> DEFAULT_SELECTORS[k]] : S \in Perturbed}
        \cup {[k \in Keys |-> IF k \in S THEN v ELSE DEFAULT_SELECTORS[k]] :
                S \in Perturbed, v \in OddSelectors}

\* a textbox value: the css text, possibly surrounded by whitespace
Css(ws, css) == [ws |-> ws, css |-> css]

\* str.strip() of a textbox value
css_strip(c) == c.css

\* the textbox values do_scrape is called with
CssInputs ==
    {[k \in Keys |-> IF k \in S THEN v ELSE Css(FALSE, DEFAULT_SELECTORS[k])] :
        S \in Perturbed, v \in {Css(FALSE, o) : o \in OddSelectors} \cup {Css(TRUE, "")}}

\* the url arguments per entry point
UrlInputs(e) ==
    IF e = "do_scrape"
    THEN {None} \cup UrlStrings \cup {Padded(u) : u \in UrlStrings}
    ELSE UrlStrings

----------------------------------------------------------------------------
(* Fetch client: the retry policy of make_session *)

RetryTotal == 5

status_forcelist == {429, 500, 502, 503, 504}

\* urllib3's RETRY_AFTER_STATUS_CODES, honoured because the Retry object
\* keeps respect_retry_after_header at its default
RETRY_AFTER_STATUS_CODES == {413, 429, 503}

\* a variant that gives up one retry early
is_exhausted_early(total) == total <= 0

\* Retry.is_exhausted(), after Retry.increment() has taken one off total
is_exhausted(total) == total < 0

\* Retry.is_retry("GET", status, has_retry_after)
is_retry(status, has_retry_after, total) ==
    \/ status \in status_forcelist
    \/ /\ total # 0
       /\ has_retry_after
       /\ status \in RETRY_AFTER_STATUS_CODES

\* a variant that raises for server errors only
raises_for_status_5xx(status) == 500 <= status /\ status < 600

\* Response.raise_for_status() raises HTTPError
raises_for_status(status) == 400 <= status /\ status < 600

Response(status, retry_after, body) ==
    [status |-> status, retry_after |-> retry_after, body |-> body]

\* what the transport can answer to one request
Responses ==
    {Response(200, FALSE, p) : p \in Pages}
        \cup {Response(304, FALSE, PageSingle), Response(404, FALSE, PageNoCards),
              Response(413, FALSE, PageNoCards), Response(413, TRUE, PageNoCards)}
        \cup {Response(st, FALSE, PageNoCards) : st \in status_forcelist}

----------------------------------------------------------------------------
(* The call *)

NoOutcome == [kind |-> "none", msg |-> "", err |-> NoError, csv |-> FALSE]

Init ==
    /\ pc = "idle"
    /\ entry = ""
    /\ url = None
    /\ use_js = FALSE
    /\ max_items = 0
    /\ selectors = DEFAULT_SELECTORS
    /\ retries = 0
    /\ httpCalls = 0
    /\ resp = None
    /\ others = FALSE
    /\ playwright = "none"
    /\ browser = "none"
    /\ navs = 0
    /\ exc = NoError
    /\ html = None
    /\ rows = <<>>
    /\ outcome = NoOutcome

\* the caller invokes do_scrape (the Gradio handler) or scrape_once
Call ==
    /\ pc = "idle"
    /\ \E e \in {"do_scrape", "scrape_once"} :
        \E u \in UrlInputs(e) :
            \E js \in BOOLEAN :
                /\ entry' = e
                /\ url' = u
                /\ use_js' = js
                /\ pc' = IF e = "do_scrape" THEN "do_scrape" ELSE "fetch_html"
    /\ UNCHANGED <<max_items, selectors, retries, httpCalls, resp, others,
                   playwright, browser, navs, exc, html, rows, outcome>>

\* a variant without the `if not url or not url.strip()` check
do_scrape_unchecked ==
    /\ pc = "do_scrape"
    /\ IF url = None
       THEN /\ outcome' = Fail([type |-> "AttributeError", why |-> "None.strip"])
            /\ pc' = "done"
            /\ url' = url
       ELSE /\ url' = url_strip(url)
            /\ pc' = "fetch_html"
            /\ outcome' = outcome
    /\ UNCHANGED <<entry, use_js, max_items, selectors, retries, httpCalls, resp,
                   others, playwright, browser, navs, exc, html, rows>>

\* do_scrape up to its call of scrape_once(url.strip(), ...)
do_scrape ==
    /\ pc = "do_scrape"
    /\ IF ~UrlTruthy(url) \/ ~UrlTruthy(url_strip(url))
       THEN /\ outcome' = [kind |-> "returned", msg |-> "Please provide a URL.",
                           err |-> NoError, csv |-> FALSE]
            /\ pc' = "done"
            /\ url' = url
       ELSE /\ url' = url_strip(url)
            /\ pc' = "fetch_html"
            /\ outcome' = outcome
    /\ UNCHANGED <<entry, use_js, max_items, selectors, retries, httpCalls, resp,
                   others, playwright, browser, navs, exc, html, rows>>

\* fetch_html: the policy guard, then the choice of the path; the non-JS
\* path builds its session (make_session) here
fetch_html ==
    /\ pc = "fetch_html"
    /\ IF domain_blocked(url)
       THEN /\ outcome' = Fail(PolicyError)
            /\ pc' = "done"
            /\ retries' = retries
       ELSE IF use_js
       THEN /\ pc' = "import_playwright"
            /\ UNCHANGED <<outcome, retries>>
       ELSE /\ pc' = "session_get"
            /\ retries' = RetryTotal
            /\ outcome' = outcome
    /\ UNCHANGED <<entry, url, use_js, max_items, selectors, httpCalls, resp,
                   others, playwright, browser, navs, exc, html, rows>>

\* Session.get prepares the request: a url without a scheme or a host is
\* refused before anything is sent
session_get ==
    /\ pc = "session_get"
    /\ IF url.scheme = "" \/ url.host = <<>>
       THEN /\ outcome' = Fail(MissingSchema)
            /\ pc' = "done"
       ELSE /\ pc' = "urlopen"
            /\ outcome' = outcome
    /\ UNCHANGED <<entry, url, use_js, max_items, selectors, retries, httpCalls,
                   resp, others, playwright, browser, navs, exc, html, rows>>

\* one attempt of urlopen: the request is sent and the transport answers
\* with a response, which the retry policy retries or hands back
urlopen_response ==
    /\ pc = "urlopen"
    /\ \E r \in Responses :
        /\ httpCalls' = httpCalls + 1
        /\ resp' = r
        /\ IF is_retry(r.status, r.retry_after, retries)
           THEN /\ retries' = retries - 1
                /\ IF is_exhausted(retries - 1)
                   THEN /\ pc' = "raise_for_status"
                        /\ others' = others
                   ELSE /\ pc' = "urlopen"
                        /\ others' = (others \/ r.status # 503)
           ELSE /\ pc' = "raise_for_status"
                /\ UNCHANGED <<retries, others>>
    /\ UNCHANGED <<entry, url, use_js, max_items, selectors, playwright, browser,
                   navs, exc, html, rows, outcome>>

\* one attempt of urlopen that ends in a connection or read error
urlopen_error ==
    /\ pc = "urlopen"
    /\ httpCalls' = httpCalls + 1
    /\ resp' = None
    /\ retries' = retries - 1
    /\ IF is_exhausted(retries - 1)
       THEN /\ outcome' = Fail(ConnectionError)
            /\ pc' = "done"
            /\ others' = others
       ELSE /\ pc' = "urlopen"
            /\ others' = TRUE
            /\ outcome' = outcome
    /\ UNCHANGED <<entry, url, use_js, max_items, selectors, playwright, browser,
                   navs, exc, html, rows>>

\* resp.raise_for_status(); return resp.text
raise_for_status ==
    /\ pc = "raise_for_status"
    /\ IF raises_for_status(resp.status)
       THEN /\ outcome' = Fail(HTTPError(resp.status))
            /\ pc' = "done"
            /\ html' = html
       ELSE /\ html' = resp.body
            /\ pc' = "parse_products"
            /\ outcome' = outcome
    /\ UNCHANGED <<entry, url, use_js, max_items, selectors, retries, httpCalls,
                   resp, others, playwright, browser, navs, exc, rows>>

----------------------------------------------------------------------------
(* Fetch client: the JS-rendering path *)

JsFrame == <<entry, url, use_js, max_items, selectors, retries, httpCalls, resp,
             others, rows>>

\* from playwright.sync_api import sync_playwright
import_playwright ==
    /\ pc = "import_playwright"
    /\ \/ /\ pc' = "sync_playwright"
          /\ outcome' = outcome
       \/ /\ outcome' = Fail(PlaywrightMissing)
          /\ pc' = "done"
    /\ UNCHANGED <<JsFrame, playwright, browser, navs, exc, html>>

\* `with sync_playwright() as p:` is entered: the driver starts
sync_playwright ==
    /\ pc = "sync_playwright"
    /\ playwright' = "running"
    /\ pc' = "launch"
    /\ UNCHANGED <<JsFrame, browser, navs, exc, html, outcome>>

\* p.chromium.launch(headless=True, ...)
launch ==
    /\ pc = "launch"
    /\ \/ /\ browser' = "open"
          /\ pc' = "new_page"
          /\ exc' = exc
       \/ /\ exc' = BrowserError("launch")
          /\ pc' = "with_exit"
          /\ browser' = browser
    /\ UNCHANGED <<JsFrame, playwright, navs, html, outcome>>

\* browser.new_context, context.new_page, page.set_default_timeout
new_page ==
    /\ pc = "new_page"
    /\ \/ /\ pc' = "goto"
          /\ exc' = exc
       \/ /\ exc' = BrowserError("new_page")
          /\ pc' = "with_exit"
    /\ UNCHANGED <<JsFrame, playwright, browser, navs, html, outcome>>

\* page.goto(url, wait_until="networkidle"): the navigation succeeds, or it
\* fails or times out; a url without scheme or host cannot be navigated to
goto ==
    /\ pc = "goto"
    /\ navs' = navs + 1
    /\ \/ /\ url.scheme # "" /\ url.host # <<>>
          /\ pc' = "content"
          /\ exc' = exc
       \/ /\ exc' = BrowserError("goto")
          /\ pc' = "with_exit"
    /\ UNCHANGED <<JsFrame, playwright, browser, html, outcome>>

\* html = page.content()
content ==
    /\ pc = "content"
    /\ \/ \E p \in Pages :
            /\ html' = p
            /\ pc' = "browser_close"
            /\ exc' = exc
       \/ /\ exc' = BrowserError("content")
          /\ pc' = "with_exit"
          /\ html' = html
    /\ UNCHANGED <<JsFrame, playwright, browser, navs, outcome>>

\* browser.close()
browser_close ==
    /\ pc = "browser_close"
    /\ browser' = "closed"
    /\ pc' = "with_exit"
    /\ UNCHANGED <<JsFrame, playwright, navs, exc, html, outcome>>

\* a variant in which leaving the block does not stop the driver (the
\* driver started with sync_playwright().start() and never stopped)
with_exit_leaky ==
    /\ pc = "with_exit"
    /\ UNCHANGED <<playwright, browser>>
    /\ IF exc # NoError
       THEN /\ outcome' = Fail(exc)
            /\ pc' = "done"
       ELSE /\ pc' = "parse_products"
            /\ outcome' = outcome
    /\ UNCHANGED <<JsFrame, navs, exc, html>>

\* the `with sync_playwright()` block is left, by `return html` or by an
\* exception: the driver is stopped, which closes a browser still open;
\* then fetch_html returns or the exception goes on to the caller
with_exit ==
    /\ pc = "with_exit"
    /\ playwright' = "stopped"
    /\ browser' = IF browser = "open" THEN "closed" ELSE browser
    /\ IF exc # NoError
       THEN /\ outcome' = Fail(exc)
            /\ pc' = "done"
       ELSE /\ pc' = "parse_products"
            /\ outcome' = outcome
    /\ UNCHANGED <<JsFrame, navs, exc, html>>

----------------------------------------------------------------------------
(* Orchestrator: the rest of scrape_once, and of do_scrape after it *)

SelectorSyntaxError == [type |-> "SelectorSyntaxError", why |-> "card"]

\* what the call returns for the parsed rows
Returned(rs) ==
    IF entry = "do_scrape"
    THEN IF rs = <<>>
         THEN [kind |-> "returned", msg |-> "No products found", err |-> NoError, csv |-> FALSE]
         ELSE [kind |-> "returned", msg |-> "Scraped rows", err |-> NoError, csv |-> TRUE]
    ELSE [kind |-> "returned", msg |-> "", err |-> NoError, csv |-> FALSE]

\* the selector dicts parse_products can be handed: do_scrape strips six
\* textbox values, a direct caller passes any dict
SelectorArgs ==
    IF entry = "do_scrape"
    THEN {[k \in Keys |-> css_strip(c[k])] : c \in CssInputs}
    ELSE SelectorDicts

\* the max_items handed on: do_scrape passes int(max_items or 50)
MaxItemsArgs ==
    IF entry = "do_scrape"
    THEN {IF k = 0 THEN DEFAULT_MAX_ITEMS ELSE k : k \in 0..MaxK}
    ELSE 1..MaxK

\* rows = parse_products(url, html, selectors, max_items), and the return of
\* scrape_once and of do_scrape.  The selectors and max_items arguments are
\* first read here, so the model binds them here.
scrape_once ==
    /\ pc = "parse_products"
    /\ \E sels \in SelectorArgs :
        \E k \in MaxItemsArgs :
            LET r == parse_products(url, html, sels, k)
            IN  /\ selectors' = sels
                /\ max_items' = k
                /\ IF r.ok
                   THEN /\ rows' = r.v
                        /\ outcome' = Returned(r.v)
                   ELSE /\ rows' = rows
                        /\ outcome' = Fail(SelectorSyntaxError)
    /\ pc' = "done"
    /\ UNCHANGED <<entry, url, use_js, retries, httpCalls, resp, others,
                   playwright, browser, navs, exc, html>>

Next ==
    \/ Call
    \/ do_scrape
    \/ fetch_html
    \/ session_get
    \/ urlopen_response
    \/ urlopen_error
    \/ raise_for_status
    \/ import_playwright
    \/ sync_playwright
    \/ launch
    \/ new_page
    \/ goto
    \/ content
    \/ browser_close
    \/ with_exit
    \/ scrape_once

Spec == Init /\ [][Next]_vars

----------------------------------------------------------------------------
(* Properties *)

\* nothing has touched the network: no HTTP request, no driver, no browser,
\* no navigation
NoNetwork ==
    /\ httpCalls = 0
    /\ playwright = "none"
    /\ browser = "none"
    /\ navs = 0

\* the url's host, lowercased, is an entry of the denylist
Denylisted(u) == u # None /\ lower(u.host) \in BLOCKED_HOSTS

\* the host equals a denylist entry or is a subdomain of one
DeniedHost(h) ==
    \/ h \in BLOCKED_HOSTS
    \/ \E e \in BLOCKED_HOSTS : endswith(h, <<".">> \o e)

\* the url is missing, empty or only whitespace
IsBlank(u) == u = None \/ (u.scheme = "" /\ u.host = <<>> /\ u.path = <<>>)

\* fetch_html returned HTML and parse_products has run on it
ParseRan == pc = "done" /\ html # None

\* the nodes below the document's root that the selector matches, in document
\* order (none for an empty or malformed selector)
Matches(root, sel) ==
    IF sel = "" \/ sel \in InvalidSelectors THEN <<>>
    ELSE SelectSeq(Descendants(root), LAMBDA n : n.label = sel)

IsAbsolute(u) == u.t = "url" /\ u.scheme # "" /\ u.host # <<>>

HasDigit(s) == \E j \in 1..Len(s) : s[j] \in Digits

\* the record's fields that the selector `key` feeds are all null
FieldNull(key, rec) ==
    CASE key = "name"   -> rec.product_name = None
      [] key = "price"  -> rec.price_text = None /\ rec.price_value = None
      [] key = "image"  -> rec.image_url = None
      [] key = "review" -> rec.review = None
      [] key = "link"   -> rec.product_url = None

\* C1: a call for a URL whose host is denylisted never touches the network
\* (no HTTP request, no browser, whatever the render-JavaScript flag) and ends
\* in the policy error.
C1_BlockedNoNetwork ==
    (pc # "idle" /\ Denylisted(url)) =>
        /\ NoNetwork
        /\ pc \in {"do_scrape", "fetch_html", "done"}
        /\ pc = "done" => outcome = Fail(PolicyError)

C1_Witness ==
    /\ pc = "done"
    /\ entry = "scrape_once"
    /\ use_js
    /\ url.host = WwwMyntraCom
    /\ outcome = [kind |-> "raised", msg |-> "", err |-> PolicyError, csv |-> FALSE]
    /\ NoNetwork

\* C2 (as claimed): domain_blocked(url) is true exactly when the lowercased
\* host equals a denylist entry or ends with "." followed by an entry.
C2_BlockedIffDenied ==
    (pc # "idle" /\ url # None) =>
        (domain_blocked(url) <=> DeniedHost(lower(url.host)))

\* C3 (as claimed): one non-JS fetch issues at most 5 HTTP attempts.
C3_AtMostFiveAttempts == httpCalls <= 5

\* C3 (amended): one non-JS fetch issues at most 6 HTTP attempts (the first
\* request and up to 5 retries); it gives up on a retryable status only after
\* the 6th; after 503 four times and then 200 it returns, on the 5th attempt,
\* that response's body.
C3_AtMostSixAttempts ==
    /\ httpCalls <= RetryTotal + 1
    /\ (pc \in {"raise_for_status", "done"} /\ resp # None
            /\ resp.status \in status_forcelist)
        => httpCalls = RetryTotal + 1
    /\ (pc \in {"parse_products", "done"} /\ ~use_js /\ ~others /\ httpCalls = 5
            /\ resp # None /\ resp.status = 200)
        => /\ html = resp.body
           /\ outcome.err = NoError

C3_Witness ==
    /\ pc = "parse_products"
    /\ ~use_js
    /\ ~others
    /\ httpCalls = 5
    /\ resp # None
    /\ resp.status = 200
    /\ html = PageBooks

\* C4 (as claimed): the non-JS fetch never returns HTML for a final non-2xx
\* response; another attempt follows only a status of the retryable set; a
\* final non-2xx response fails the call with an error carrying its status.
C4_NeverHtmlForNon2xx ==
    /\ (html # None /\ ~use_js) => resp.status \in 200..299
    /\ (pc = "urlopen" /\ resp # None) => resp.status \in status_forcelist
    /\ (pc = "done" /\ resp # None /\ resp.status \notin 200..299)
        => outcome = Fail(HTTPError(resp.status))

\* C4 (amended): the non-JS fetch never returns HTML for a final 4xx/5xx
\* response; another attempt follows only a status of the retryable set or a
\* 413/429/503 that carries Retry-After; a final 4xx/5xx response fails the
\* call with an error carrying its status.
C4_NeverHtmlForHttpError ==
    /\ (html # None /\ ~use_js) => resp.status \notin 400..599
    /\ (pc = "urlopen" /\ resp # None)
        => \/ resp.status \in status_forcelist
           \/ resp.status \in RETRY_AFTER_STATUS_CODES /\ resp.retry_after
    /\ (pc = "done" /\ resp # None /\ resp.status \in 400..599)
        => outcome = Fail(HTTPError(resp.status))

C4_Witness ==
    /\ pc = "done"
    /\ resp # None
    /\ resp.status = 404
    /\ httpCalls = 2
    /\ html = None
    /\ outcome.err = HTTPError(404)

\* C5: once fetch_html has returned or raised on the JS path, a browser that
\* was launched is closed and the driver is stopped.
C5_BrowserTornDown ==
    (pc \in {"parse_products", "done"} /\ browser # "none")
        => browser = "closed" /\ playwright = "stopped"

C5_Witness ==
    /\ pc = "done"
    /\ exc = BrowserError("goto")
    /\ outcome.err = BrowserError("goto")
    /\ browser = "closed"
    /\ navs = 1

OptionalKeys == Keys \ {"card"}

\* C6 (as claimed): with a malformed card selector the call ends in a
\* selector error instead of an empty record sequence; a malformed selector
\* of an optional field only makes that field null.
C6_InvalidCardRaises ==
    /\ (ParseRan /\ dict_get(selectors, "card") \in InvalidSelectors)
        => outcome = Fail(SelectorSyntaxError)
    /\ \A key \in OptionalKeys :
        (ParseRan /\ dict_get(selectors, key) \in InvalidSelectors)
            => \A i \in 1..Len(rows) : FieldNull(key, rows[i])

\* C6 (amended): with a malformed card selector parse_products returns the
\* empty record sequence and the call ends without an error; a malformed
\* selector of an optional field only makes that field null.
C6_InvalidCardYieldsNoRows ==
    /\ (ParseRan /\ dict_get(selectors, "card") \in InvalidSelectors)
        => rows = <<>> /\ outcome = Returned(<<>>)
    /\ \A key \in OptionalKeys :
        (ParseRan /\ dict_get(selectors, key) \in InvalidSelectors)
            => /\ outcome.err = NoError
               /\ \A i \in 1..Len(rows) : FieldNull(key, rows[i])

C6_Witness ==
    /\ ParseRan
    /\ html = PageBooks
    /\ dict_get(selectors, "card") \in InvalidSelectors
    /\ dict_get(selectors, "name") = DEFAULT_SELECTORS.name
    /\ rows = <<>>
    /\ outcome.err = NoError

\* C7: parse_products returns at most max_items records: in order, the
\* records of the first min(max_items, n) of the n nodes the card selector
\* matches in document order; with no match it returns the empty sequence and
\* the call ends without an error.
C7_CappedPrefix ==
    ParseRan =>
        LET all == Matches(BeautifulSoup(html), dict_get(selectors, "card"))
        IN  /\ Len(rows) <= max_items
            /\ Len(rows) = Min(max_items, Len(all))
            /\ \A i \in 1..Len(rows) : rows[i] = card_record(all[i], url, selectors)
            /\ all = <<>> => rows = <<>> /\ outcome.err = NoError

C7_Witness ==
    /\ ParseRan
    /\ html = PageBooks
    /\ selectors = DEFAULT_SELECTORS
    /\ max_items = 2
    /\ Len(rows) = 2
    /\ rows[1].product_name = Str(<<"A", " ", "L", "i", "g", "h", "t">>)
    /\ rows[2].product_name = Str(<<"B">>)

\* C8 (as claimed): in every record image_url and product_url are each null
\* or an absolute URL, never an empty or relative string.
C8_UrlsNullOrAbsolute ==
    ParseRan =>
        \A i \in 1..Len(rows) :
            /\ rows[i].image_url = None \/ IsAbsolute(rows[i].image_url)
            /\ rows[i].product_url = None \/ IsAbsolute(rows[i].product_url)

\* the raw text of a node and of everything below it
RECURSIVE AllText(_)
AllText(node) ==
    LET RECURSIVE Through(_)
        Through(ks) ==
            IF ks = <<>> THEN <<>> ELSE AllText(Head(ks)) \o Through(Tail(ks))
    IN  node.text \o Through(node.kids)

\* C9: in every record price_value is non-null only if price_text is non-null
\* and holds a digit; a card without a price element, or whose price text is
\* empty or has no digit, has price_value null.
C9_PriceValueNeedsNumericText ==
    ParseRan =>
        LET all == Matches(BeautifulSoup(html), dict_get(selectors, "card"))
        IN  \A i \in 1..Len(rows) :
                LET found == Matches(all[i], dict_get(selectors, "price"))
                IN  /\ rows[i].price_value # None
                        => rows[i].price_text # None /\ HasDigit(rows[i].price_text.s)
                    /\ (found = <<>> \/ ~HasDigit(AllText(found[1])))
                        => rows[i].price_value = None
                    /\ rows[i].price_text = None => rows[i].price_value = None

C9_Witness ==
    /\ ParseRan
    /\ Len(rows) = 5
    /\ rows[2].price_text = None /\ rows[2].price_value = None
    /\ rows[3].price_text = Str(<<"F", "r", "e", "e">>) /\ rows[3].price_value = None
    /\ rows[4].price_value = [t |-> "float", mant |-> 19995, scale |-> 1]

\* C10 (as claimed): a request whose url is missing, empty or whitespace ends
\* in a validation error raised to the caller, with nothing fetched.
C10_BlankUrlRaises ==
    (pc = "done" /\ entry = "do_scrape" /\ IsBlank(url))
        => outcome.kind = "raised" /\ NoNetwork

\* C10 (amended): do_scrape answers a url that is missing, empty or
\* whitespace by returning the message "Please provide a URL." (nothing is
\* raised), before the policy guard and any fetch: no HTTP request, no
\* browser.
C10_BlankUrlRejectedByMessage ==
    (entry = "do_scrape" /\ pc \notin {"idle", "do_scrape"} /\ IsBlank(url))
        => /\ pc = "done"
           /\ outcome = [kind |-> "returned", msg |-> "Please provide a URL.",
                         err |-> NoError, csv |-> FALSE]
           /\ NoNetwork
           /\ html = None

C10_Witness ==
    /\ pc = "done"
    /\ entry = "do_scrape"
    /\ use_js
    /\ url = Padded(EmptyUrl)
    /\ outcome.msg = "Please provide a URL."
    /\ NoNetwork

\* the selector dict that holds only `key`, with the selector sels gives it
OnlyKey(sels, key) ==
    IF key \in DOMAIN sels THEN [k \in {key} |-> sels[key]] ELSE [k \in {} |-> ""]

\* the record's fields that the selector `key` feeds
FieldsOf(key, rec) ==
    CASE key = "name"   -> <<rec.product_name>>
      [] key = "price"  -> <<rec.price_text, rec.price_value>>
      [] key = "image"  -> <<rec.image_url>>
      [] key = "review" -> <<rec.review>>
      [] key = "link"   -> <<rec.product_url>>

\* C11: for every optional field whose selector is missing from the dict, is
\* the empty string or matches nothing below a card, that card's record has
\* null for the field and the call ends without an error; every field of a
\* record is what its own selector alone gives, whatever the other selectors.
C11_AbsentSelectorYieldsNull ==
    ParseRan =>
        LET all == Matches(BeautifulSoup(html), dict_get(selectors, "card"))
        IN  /\ outcome.err = NoError
            /\ \A i \in 1..Len(rows) : \A key \in OptionalKeys :
                /\ (\/ key \notin DOMAIN selectors
                    \/ selectors[key] = ""
                    \/ Matches(all[i], selectors[key]) = <<>>)
                    => FieldNull(key, rows[i])
                /\ FieldsOf(key, rows[i])
                    = FieldsOf(key, card_record(all[i], url, OnlyKey(selectors, key)))

C11_Witness ==
    /\ ParseRan
    /\ html = PageBooks
    /\ "price" \notin DOMAIN selectors
    /\ "review" \in DOMAIN selectors
    /\ Len(rows) = 3
    /\ rows[1].price_text = None /\ rows[1].price_value = None
    /\ rows[1].review # None
    /\ rows[1].product_name = Str(<<"A", " ", "L", "i", "g", "h", "t">>)
    /\ IsAbsolute(rows[1].product_url)
    /\ IsAbsolute(rows[1].image_url)

AllNullRecord ==
    [product_name |-> None, price_text |-> None, price_value |-> None,
     image_url |-> None, review |-> None, product_url |-> None]

\* C12: parse_products emits one record per card of the capped card list, so
\* the number of records is min(max_items, number of card matches); a card in
\* which no field selector matches is emitted, in its place, as a record
\* whose fields are all null.
C12_OneRecordPerCard ==
    ParseRan =>
        LET all == Matches(BeautifulSoup(html), dict_get(selectors, "card"))
        IN  /\ Len(rows) = Min(max_items, Len(all))
            /\ \A i \in 1..Min(max_items, Len(all)) :
                (\A key \in OptionalKeys :
                    Matches(all[i], dict_get(selectors, key)) = <<>>)
                    => rows[i] = AllNullRecord

C12_Witness ==
    /\ ParseRan
    /\ html = PageBooks
    /\ max_items = DEFAULT_MAX_ITEMS
    /\ Len(rows) = 5
    /\ rows[5] = AllNullRecord
    /\ rows[4] # AllNullRecord

====
